---- MODULE Spec2Model ----
(***************************************************************************)
(* Model of esp-leveled-edge: a both-edges GPIO interrupt emulated with    *)
(* alternating level interrupts (src/src/leveled_edge.rs) and the debounce *)
(* strategies that judge each firing (src/src/debounce.rs).                *)
(*                                                                         *)
(* One controller on one pin is modelled in full, together with the part   *)
(* of the GPIO driver and of the hardware it talks to: the pin's level,    *)
(* the programmed interrupt type, the interrupt enable bit, the latched    *)
(* interrupt status, the handler table entry and the driver-wide ISR       *)
(* service.  Levels are booleans (TRUE = high), times are microseconds.    *)
(***************************************************************************)
EXTENDS Integers, Sequences, FiniteSets

\* ------------------------------------------------------------- bounds
\* Debounce times offered to the constructors: 0..MaxDebounce.
MaxDebounce == 2
\* With a controller installed the clock runs from 0 to MaxIsrClock and then
\* stands still.
MaxIsrClock == 2
\* n_irq and n_cb count up to MaxCount and stay there.
MaxCount == 3
\* A debouncer driven on its own: the clock runs from 0 to MaxClock, and
\* fired records the first MaxFirings firings.
MaxClock == 5
MaxFirings == 4

VARIABLES
    level,          \* the pin's actual level
    clock,          \* esp_timer_get_time()
    isr_service,    \* driver-wide: gpio_install_isr_service has succeeded
    intr_type,      \* the pin's programmed trigger: "None", "LowLevel", "HighLevel"
    intr_enabled,   \* the pin's interrupt enable bit
    handler_reg,    \* the driver holds irq_handler and a context pointer for the pin
    pending,        \* the pin's latched interrupt status
    phase,          \* the controller: "none", "installed", "failed", "panicked", "dropped"
    new_err,        \* which call made LeveledEdge::new return Err ("none" if none)
    svc_result,     \* what gpio_install_isr_service returned to the last new
    pin_state,      \* LeveledEdge.pin_state
    initial_level,  \* the level new read from the pin
    deb,            \* LeveledEdge.debouncer
    pc,             \* where irq_handler stands
    entry_state,    \* history: pin_state when the latest handler invocation began
    valid,          \* the verdict is_isr_valid gave this invocation
    cb_this,        \* the arguments the callback was called with in this invocation
    fired,          \* history: <<time, verdict>> of a lone debouncer's firings
    n_irq,          \* history: completed handler invocations (saturates at MaxCount)
    n_cb,           \* history: callback invocations (saturates at MaxCount)
    uaf             \* history: irq_handler ran on a released controller

vars == <<level, clock, isr_service, intr_type, intr_enabled, handler_reg, pending,
          phase, new_err, svc_result, pin_state, initial_level, deb, pc, valid,
          cb_this, fired, n_irq, n_cb, uaf, entry_state>>

hwVars == <<level, clock>>
drvVars == <<isr_service, intr_type, intr_enabled, handler_reg, pending>>
histVars == <<fired, n_irq, n_cb>>
ctlVars == <<phase, new_err, svc_result, pin_state, initial_level, pc, valid, cb_this,
            n_irq, n_cb, uaf, entry_state>>

Sat(n) == IF n < MaxCount THEN n + 1 ELSE n

\* ----------------------------------------------------------- debounce.rs
Kinds == {"NoDebounce", "ClassicDebounce", "FilterDebounce"}

\* NoDebounce is a unit struct: its fields here are placeholders.
NoDebounceNew ==
    [kind |-> "NoDebounce", debounce_time |-> 0, last_sample |-> 0, ignore_next |-> FALSE]

\* Faulty variant: last_sample starts at the clock's origin, not at the
\* time of construction.
ClassicDebounceNewFromZero(debounce_time, now) ==
    [kind |-> "ClassicDebounce", debounce_time |-> debounce_time,
     last_sample |-> 0, ignore_next |-> FALSE]

ClassicDebounceNew(debounce_time, now) ==
    [kind |-> "ClassicDebounce", debounce_time |-> debounce_time,
     last_sample |-> now, ignore_next |-> FALSE]

FilterDebounceNew(debounce_time, now) ==
    [kind |-> "FilterDebounce", debounce_time |-> debounce_time,
     last_sample |-> now, ignore_next |-> FALSE]

DebounceNew(kind, debounce_time, now) ==
    CASE kind = "NoDebounce" -> NoDebounceNew
      [] kind = "ClassicDebounce" -> ClassicDebounceNew(debounce_time, now)
      [] kind = "FilterDebounce" -> FilterDebounceNew(debounce_time, now)

\* Each is_isr_valid gives the verdict and the debouncer it leaves behind.
\* now and last_sample are non-negative i64 values, so now - last_sample
\* cannot overflow.
NoDebounceIsIsrValid(d, now) == [ok |-> TRUE, deb |-> d]

\* Faulty variant: the window's end is taken as inside the window.
ClassicIsIsrValidInclusive(d, now) ==
    IF now - d.last_sample <= d.debounce_time
    THEN [ok |-> FALSE, deb |-> d]
    ELSE [ok |-> TRUE, deb |-> [d EXCEPT !.last_sample = now]]

\* Faulty variant: last_sample is taken on every firing, as FilterDebounce does.
ClassicIsIsrValidResamples(d, now) ==
    [ok |-> ~(now - d.last_sample < d.debounce_time),
     deb |-> [d EXCEPT !.last_sample = now]]

ClassicIsIsrValid(d, now) ==
    IF now - d.last_sample < d.debounce_time
    THEN [ok |-> FALSE, deb |-> d]
    ELSE [ok |-> TRUE, deb |-> [d EXCEPT !.last_sample = now]]

\* Faulty variant: the firing after an in-window rejection is swallowed only
\* if it is inside the window too.
FilterIsIsrValidLateEchoPasses(d, now) ==
    LET in_window == now - d.last_sample < d.debounce_time
    IN  [ok |-> ~in_window,
         deb |-> [d EXCEPT !.ignore_next = in_window /\ ~d.ignore_next,
                           !.last_sample = now]]

\* Faulty variant: last_sample is taken only on acceptance, as
\* ClassicDebounce does.
FilterIsIsrValidKeepsSample(d, now) ==
    LET r == IF ~d.ignore_next
             THEN IF now - d.last_sample < d.debounce_time
                  THEN [is_passed |-> FALSE, ignore_next |-> TRUE]
                  ELSE [is_passed |-> TRUE, ignore_next |-> d.ignore_next]
             ELSE [is_passed |-> FALSE, ignore_next |-> FALSE]
    IN  [ok |-> r.is_passed,
         deb |-> [d EXCEPT !.ignore_next = r.ignore_next,
                           !.last_sample = IF r.is_passed THEN now ELSE @]]

\* Faulty variant: the window's end is taken as inside the window.
FilterIsIsrValidInclusive(d, now) ==
    LET r == IF ~d.ignore_next
             THEN IF now - d.last_sample <= d.debounce_time
                  THEN [is_passed |-> FALSE, ignore_next |-> TRUE]
                  ELSE [is_passed |-> TRUE, ignore_next |-> d.ignore_next]
             ELSE [is_passed |-> FALSE, ignore_next |-> FALSE]
    IN  [ok |-> r.is_passed,
         deb |-> [d EXCEPT !.ignore_next = r.ignore_next, !.last_sample = now]]

FilterIsIsrValid(d, now) ==
    LET r == IF ~d.ignore_next
             THEN IF now - d.last_sample < d.debounce_time
                  THEN [is_passed |-> FALSE, ignore_next |-> TRUE]
                  ELSE [is_passed |-> TRUE, ignore_next |-> d.ignore_next]
             ELSE [is_passed |-> FALSE, ignore_next |-> FALSE]
    IN  [ok |-> r.is_passed,
         deb |-> [d EXCEPT !.ignore_next = r.ignore_next, !.last_sample = now]]

IsIsrValid(d, now) ==
    CASE d.kind = "NoDebounce" -> NoDebounceIsIsrValid(d, now)
      [] d.kind = "ClassicDebounce" -> ClassicIsIsrValid(d, now)
      [] d.kind = "FilterDebounce" -> FilterIsIsrValid(d, now)

\* ------------------------------------------------------- leveled_edge.rs
\* install_isr's choice of the first trigger.
\* Faulty variant: arms for the level the pin already has.
InstallNextIntrSwapped(ps) == IF ps THEN "HighLevel" ELSE "LowLevel"

InstallNextIntr(ps) == IF ps THEN "LowLevel" ELSE "HighLevel"

\* Faulty variant: the trigger is armed for the remembered level itself.
ToggleNextIntrSwapped(ps) == IF ps THEN "HighLevel" ELSE "LowLevel"

\* toggle_interrupt_trigger's choice of the next trigger.
ToggleNextIntr(ps) == IF ps THEN "LowLevel" ELSE "HighLevel"

\* Faulty variant: "already installed" is taken for a failure.
IsrServiceAcceptedOnlyOk(r) == r = "ESP_OK"

\* install_isr's match on gpio_install_isr_service's result.
IsrServiceAccepted(r) == r \in {"ESP_OK", "ESP_ERR_INVALID_STATE"}

\* What gpio_install_isr_service can return: "already installed" when the
\* service is installed, success or a failure otherwise.
IsrServiceResults == IF isr_service THEN {"ESP_ERR_INVALID_STATE"}
                     ELSE {"ESP_OK", "ESP_ERR_NO_MEM"}

DriverResults == {"ESP_OK", "ESP_ERR_INVALID_ARG"}

\* Faulty variant: the handler is registered whatever the earlier calls
\* returned, and the first error is reported afterwards.
InstallIsrNoEarlyReturn(ps, r_set, r_svc, r_add) ==
    LET set_ok == r_set = "ESP_OK"
        svc_ok == r_svc \in {"ESP_OK", "ESP_ERR_INVALID_STATE"}
        add_ok == r_add = "ESP_OK"
    IN  [err |-> IF ~set_ok THEN "gpio_set_intr_type"
                 ELSE IF ~svc_ok THEN "gpio_install_isr_service"
                 ELSE IF ~add_ok THEN "gpio_isr_handler_add"
                 ELSE "none",
         intr_type |-> IF set_ok THEN InstallNextIntr(ps) ELSE intr_type,
         isr_service |-> isr_service \/ r_svc = "ESP_OK",
         handler_reg |-> handler_reg \/ add_ok,
         intr_enabled |-> intr_enabled \/ add_ok]

\* install_isr: the three driver calls in order, each `?` returning early.
\* Gives the call that failed ("none": Ok(())) and the driver state left.
InstallIsr(ps, r_set, r_svc, r_add) ==
    LET set_ok == r_set = "ESP_OK"
        svc_ok == set_ok /\ IsrServiceAccepted(r_svc)
        add_ok == svc_ok /\ r_add = "ESP_OK"
    IN  [err |-> IF ~set_ok THEN "gpio_set_intr_type"
                 ELSE IF ~svc_ok THEN "gpio_install_isr_service"
                 ELSE IF ~add_ok THEN "gpio_isr_handler_add"
                 ELSE "none",
         intr_type |-> IF set_ok THEN InstallNextIntr(ps) ELSE intr_type,
         isr_service |-> isr_service \/ (set_ok /\ r_svc = "ESP_OK"),
         \* gpio_isr_handler_add stores the handler and enables the interrupt
         handler_reg |-> handler_reg \/ add_ok,
         intr_enabled |-> intr_enabled \/ add_ok]

\* Faulty variant: the remembered level is set high instead of flipped.
FlipStateSetsHigh(ps) == TRUE

\* irq_handler line 121.
FlipState(ps) == ~ps

\* Faulty variant: the callback is called whatever the debouncer said.
CallbackCallsAlways(ok, ps) == <<ps>>

\* irq_handler lines 124-126: the calls made to the callback.
CallbackCalls(ok, ps) == IF ok THEN <<ps>> ELSE <<>>

\* Faulty variant: the driver's error is dropped and the handler goes on.
ToggleOutcomeIgnoresError(r) == "enable"

\* toggle_interrupt_trigger's match on gpio_set_intr_type's result: the
\* handler goes on to gpio_intr_enable, or panics.
ToggleOutcome(r) == IF r = "ESP_OK" THEN "enable" ELSE "panic"

\* ------------------------------------------------------------------ Init
\* Before construction: nothing programmed, nothing registered.
InitRest ==
    /\ isr_service = FALSE
    /\ intr_type = "None"
    /\ intr_enabled = FALSE
    /\ handler_reg = FALSE
    /\ pending = FALSE
    /\ phase = "none"
    /\ new_err = "none"
    /\ svc_result = "none"
    /\ pin_state = FALSE
    /\ initial_level = FALSE
    /\ pc = "idle"
    /\ valid = FALSE
    /\ cb_this = <<>>
    /\ fired = <<>>
    /\ n_irq = 0
    /\ n_cb = 0
    /\ uaf = FALSE
    /\ entry_state = FALSE

Init ==
    /\ level \in BOOLEAN
    /\ clock = 0
    /\ deb = NoDebounceNew
    /\ InitRest

\* ---------------------------------------------------- the environment
\* The pin changes level (a genuine edge, a bounce or a glitch).
PinChange ==
    /\ level' = ~level
    /\ UNCHANGED <<clock, drvVars, phase, new_err, svc_result, pin_state, initial_level,
                   deb, pc, valid, cb_this, histVars, uaf, entry_state>>

\* The monotonic microsecond clock advances.
Tick ==
    /\ clock < MaxIsrClock
    /\ clock' = clock + 1
    /\ UNCHANGED <<level, drvVars, phase, new_err, svc_result, pin_state, initial_level,
                   deb, pc, valid, cb_this, histVars, uaf, entry_state>>

\* Another LeveledEdge, on another pin, is constructed first: of the state
\* modelled here its install_isr changes only the driver-wide ISR service.
OtherInstallIsrService ==
    /\ phase = "none"
    /\ ~isr_service
    /\ isr_service' = TRUE
    /\ UNCHANGED <<hwVars, intr_type, intr_enabled, handler_reg, pending, phase, new_err,
                   svc_result, pin_state, initial_level, deb, pc, valid, cb_this,
                   histVars, uaf, entry_state>>

\* A level interrupt: while the pin is at the programmed level and its
\* interrupt is enabled, the hardware latches the interrupt status.
LevelMatches == \/ intr_type = "HighLevel" /\ level
                \/ intr_type = "LowLevel" /\ ~level

HwLatch ==
    /\ intr_enabled
    /\ LevelMatches
    /\ ~pending
    /\ pending' = TRUE
    /\ UNCHANGED <<hwVars, isr_service, intr_type, intr_enabled, handler_reg, phase,
                   new_err, svc_result, pin_state, initial_level, deb, pc, valid,
                   cb_this, histVars, uaf, entry_state>>

\* ------------------------------------------------------ LeveledEdge::new
\* new(gpio, debouncer, callback): the caller built the debouncer at some
\* time tc up to now; new reads the pin, boxes the controller and installs
\* the ISR.  On Err the box is released on return.
New(kind, debounce_time, tc, r_read, r_set, r_svc, r_add) ==
    /\ phase = "none"
    /\ IF r_read # "ESP_OK"
       THEN /\ phase' = "failed"
            /\ new_err' = "is_high"
            /\ UNCHANGED <<drvVars, svc_result, pin_state, initial_level, deb>>
       ELSE LET r == InstallIsr(level, r_set, r_svc, r_add)
            IN  /\ pin_state' = level
                /\ initial_level' = level
                /\ deb' = DebounceNew(kind, debounce_time, tc)
                /\ new_err' = r.err
                /\ phase' = IF r.err = "none" THEN "installed" ELSE "failed"
                /\ svc_result' = IF r_set = "ESP_OK" THEN r_svc ELSE "none"
                /\ intr_type' = r.intr_type
                /\ isr_service' = r.isr_service
                /\ handler_reg' = r.handler_reg
                /\ intr_enabled' = r.intr_enabled
                /\ UNCHANGED pending
    /\ UNCHANGED <<hwVars, pc, valid, cb_this, histVars, uaf, entry_state>>

NewAny ==
    \E kind \in Kinds, debounce_time \in 0..MaxDebounce, tc \in 0..clock,
       r_read \in DriverResults, r_set \in DriverResults,
       r_svc \in IsrServiceResults, r_add \in DriverResults :
        New(kind, debounce_time, tc, r_read, r_set, r_svc, r_add)

\* The Box<LeveledEdge> is dropped.  LeveledEdge has no Drop impl and none of
\* its fields' destructors reaches the driver: the memory is released, the
\* handler table entry, the enable bit and the trigger stay as they are.
\* The task that drops runs only while no handler invocation is in progress.
Drop ==
    /\ phase = "installed"
    /\ pc = "idle"
    /\ phase' = "dropped"
    /\ UNCHANGED <<hwVars, drvVars, new_err, svc_result, pin_state, initial_level, deb,
                   pc, valid, cb_this, histVars, uaf, entry_state>>

\* Faulty variant: the handler starts without disabling the pin's interrupt.
DispatchNoDisable ==
    /\ pending
    /\ handler_reg
    /\ pc = "idle"
    /\ phase = "installed"
    /\ pending' = FALSE
    /\ pc' = "flip"
    /\ entry_state' = pin_state
    /\ UNCHANGED <<hwVars, isr_service, intr_type, intr_enabled, handler_reg, phase,
                   new_err, svc_result, pin_state, initial_level, deb, valid,
                   cb_this, histVars, uaf>>

\* ------------------------------------------------------------ irq_handler
\* The driver's ISR service finds the pin's status latched and calls the
\* registered handler with its context pointer; the handler's first
\* statement disables the pin's interrupt.
Dispatch ==
    /\ pending
    /\ handler_reg
    /\ pc = "idle"
    /\ phase = "installed"
    /\ pending' = FALSE
    /\ intr_enabled' = FALSE
    /\ pc' = "flip"
    /\ entry_state' = pin_state
    /\ UNCHANGED <<hwVars, isr_service, intr_type, handler_reg, phase, new_err,
                   svc_result, pin_state, initial_level, deb, valid, cb_this,
                   histVars, uaf>>

\* The same call when the controller has been released: the context pointer
\* dangles.  What the handler reads through it is whatever the memory holds
\* now, and the call may as well crash.
DispatchDangling ==
    /\ pending
    /\ handler_reg
    /\ pc = "idle"
    /\ phase = "dropped"
    /\ pending' = FALSE
    /\ uaf' = TRUE
    /\ \/ /\ pc' = "flip"
          /\ intr_enabled' = FALSE
          /\ pin_state' \in BOOLEAN
          /\ entry_state' = pin_state'
          /\ \E ign \in BOOLEAN : deb' = [deb EXCEPT !.ignore_next = ign]
       \/ /\ pc' = "crashed"
          /\ UNCHANGED <<intr_enabled, pin_state, deb, entry_state>>
    /\ UNCHANGED <<hwVars, isr_service, intr_type, handler_reg, phase, new_err,
                   svc_result, initial_level, valid, cb_this, histVars>>

\* Faulty variant: the handler reads the level from the pin.
FlipReadsPin ==
    /\ pc = "flip"
    /\ pin_state' = level
    /\ pc' = "debounce"
    /\ UNCHANGED <<hwVars, drvVars, phase, new_err, svc_result, initial_level, deb,
                   valid, cb_this, histVars, uaf, entry_state>>

\* this.pin_state = !this.pin_state
Flip ==
    /\ pc = "flip"
    /\ pin_state' = FlipState(pin_state)
    /\ pc' = "debounce"
    /\ UNCHANGED <<hwVars, drvVars, phase, new_err, svc_result, initial_level, deb,
                   valid, cb_this, histVars, uaf, entry_state>>

\* this.debouncer.is_isr_valid()
Debounce ==
    /\ pc = "debounce"
    /\ LET r == IsIsrValid(deb, clock)
       IN  /\ valid' = r.ok
           /\ deb' = r.deb
    /\ pc' = "callback"
    /\ UNCHANGED <<hwVars, drvVars, phase, new_err, svc_result, pin_state,
                   initial_level, cb_this, histVars, uaf, entry_state>>

\* if valid { (*this.callback)(this.pin_state) }
Callback ==
    /\ pc = "callback"
    /\ LET calls == CallbackCalls(valid, pin_state)
       IN  /\ cb_this' = cb_this \o calls
           /\ n_cb' = IF calls = <<>> THEN n_cb ELSE Sat(n_cb)
    /\ pc' = "rearm"
    /\ UNCHANGED <<hwVars, drvVars, phase, new_err, svc_result, pin_state,
                   initial_level, deb, valid, fired, n_irq, uaf, entry_state>>

\* this.toggle_interrupt_trigger(): gpio_set_intr_type, panic on failure.
\* The esp-idf targets build with panic = abort: the panic ends the program
\* inside the handler.
ToggleInterruptTrigger(r) ==
    /\ pc = "rearm"
    /\ intr_type' = IF r = "ESP_OK" THEN ToggleNextIntr(pin_state) ELSE intr_type
    /\ IF ToggleOutcome(r) = "enable"
       THEN pc' = "enable" /\ UNCHANGED phase
       ELSE pc' = "aborted" /\ phase' = IF phase = "installed" THEN "panicked" ELSE phase
    /\ UNCHANGED <<hwVars, isr_service, intr_enabled, handler_reg, pending, new_err,
                   svc_result, pin_state, initial_level, deb, valid, cb_this,
                   histVars, uaf, entry_state>>

Rearm == \E r \in DriverResults : ToggleInterruptTrigger(r)

\* gpio_intr_enable, and the handler returns.
Enable ==
    /\ pc = "enable"
    /\ intr_enabled' = TRUE
    /\ pc' = "idle"
    /\ valid' = FALSE
    /\ cb_this' = <<>>
    /\ n_irq' = Sat(n_irq)
    /\ UNCHANGED <<hwVars, isr_service, intr_type, handler_reg, pending, phase,
                   new_err, svc_result, pin_state, initial_level, deb, fired, n_cb,
                   uaf, entry_state>>

\* ------------------------------------------------------- specifications
Handler == Flip \/ Debounce \/ Callback \/ Rearm \/ Enable

Next ==
    \/ PinChange
    \/ Tick
    \/ OtherInstallIsrService
    \/ HwLatch
    \/ NewAny
    \/ Drop
    \/ Dispatch
    \/ DispatchDangling
    \/ Flip
    \/ Debounce
    \/ Callback
    \/ Rearm
    \/ Enable

Spec == Init /\ [][Next]_vars

\* The dispatch of a latched interrupt, the latching of a level interrupt
\* and the handler's own steps are not starved: the handler runs to its end
\* in interrupt context, and the hardware keeps the interrupt asserted
\* while the level lasts.
LiveSpec ==
    /\ Spec
    /\ WF_vars(HwLatch)
    /\ WF_vars(Dispatch)
    /\ WF_vars(Handler)

\* ------------------------------------------- a debouncer driven on its own
\* The debouncer is constructed at time DebConstructedAt, some time after
\* the clock started, and is_isr_valid is then called at any times the
\* clock allows.
DebConstructedAt == 1

DebInit ==
    /\ InitRest
    /\ level = FALSE
    /\ clock = DebConstructedAt
    /\ \E kind \in Kinds, debounce_time \in 0..MaxDebounce :
         deb = DebounceNew(kind, debounce_time, DebConstructedAt)

DebTick ==
    /\ clock < MaxClock
    /\ clock' = clock + 1
    /\ UNCHANGED <<level, drvVars, ctlVars, deb, fired>>

DebFire ==
    /\ Len(fired) < MaxFirings
    /\ LET r == IsIsrValid(deb, clock)
       IN  /\ deb' = r.deb
           /\ fired' = Append(fired, <<clock, r.ok>>)
    /\ UNCHANGED <<hwVars, drvVars, ctlVars>>

DebNext == DebTick \/ DebFire

DebSpec == DebInit /\ [][DebNext]_vars

\* ================================================================ claims
Complement(ps) == IF ps THEN "LowLevel" ELSE "HighLevel"
Odd(n) == n % 2 = 1

\* C1: whenever an installed controller's handler is not executing (after
\* construction and after every completed invocation, accepted or
\* rejected), the programmed trigger is the complement of pin_state.
C1_TriggerComplementsPinState ==
    (phase = "installed" /\ pc = "idle") => intr_type = Complement(pin_state)

\* An accepted and a rejected firing have both completed.
C1_Witness ==
    /\ phase = "installed" /\ pc = "idle"
    /\ n_irq = 2 /\ n_cb = 1
    /\ intr_type = Complement(pin_state)

\* C2: once the pin level stops changing, the remembered level of a running
\* controller comes to equal the pin level and stays equal.
C2_ConvergesToPinLevel ==
    (<>[]level \/ <>[](~level)) => <>[](phase = "installed" => pin_state = level)

\* A stale latched interrupt has made the remembered level wrong while the
\* pin is where the controller last saw it.
C2_Witness ==
    /\ phase = "installed" /\ pc = "idle"
    /\ pin_state # level /\ n_irq >= 1
    /\ deb.kind = "FilterDebounce"

\* C3: irq_handler is never invoked with a context pointer to a released
\* controller.
C3_NoHandlerCallOnReleased == ~uaf

\* C4: in each handler invocation the callback is called exactly once, with
\* the flipped pin_state, if is_isr_valid returned true, and not at all if
\* it returned false; the callback is called nowhere else.
C4_CallbackIffValid ==
    /\ [](phase = "installed" =>
            /\ pc \in {"rearm", "enable"} =>
                  /\ cb_this = IF valid THEN <<pin_state>> ELSE <<>>
                  /\ pin_state = ~entry_state
            /\ pc \notin {"rearm", "enable"} => cb_this = <<>>)
    /\ [][n_cb' # n_cb => (pc = "callback" /\ valid /\ n_cb' = n_cb + 1)]_vars

\* One invocation has called the callback, an earlier one has not.
C4_Witness ==
    /\ phase = "installed" /\ pc = "rearm"
    /\ valid /\ cb_this = <<pin_state>>
    /\ n_irq = 1 /\ n_cb = 1

\* C5: after N handler invocations since construction, all of them valid,
\* pin_state is the level read at construction XOR (N is odd).
C5_ParityOfValidInvocations ==
    (phase = "installed" /\ pc = "idle" /\ n_irq < MaxCount /\ n_cb = n_irq)
        => pin_state = (initial_level # Odd(n_irq))

C5_Witness ==
    /\ phase = "installed" /\ pc = "idle"
    /\ n_irq = 2 /\ n_cb = 2
    /\ pin_state = initial_level

\* C6: when new returns Err, whichever call failed, no handler is registered
\* for the pin, its interrupt is not enabled, and irq_handler never runs.
C6_FailedNewLeavesNoHandler ==
    phase = "failed" =>
        /\ new_err # "none"
        /\ ~handler_reg /\ ~intr_enabled /\ ~pending
        /\ pc = "idle" /\ n_irq = 0 /\ n_cb = 0 /\ ~uaf

\* The last of the three calls failed, with the pin at its armed level.
C6_Witness ==
    /\ phase = "failed" /\ new_err = "gpio_isr_handler_add"
    /\ isr_service /\ LevelMatches

\* C7: when gpio_set_intr_type fails in the handler, the handler panics: the
\* interrupt is not re-enabled and nothing of the controller moves again;
\* the handler reaches gpio_intr_enable only with the trigger re-armed for
\* the complement of pin_state.
C7_PanicStopsController ==
    /\ [](phase = "panicked" => pc = "aborted" /\ ~intr_enabled /\ ~pending)
    /\ [][phase = "panicked" =>
            UNCHANGED <<phase, pc, pin_state, deb, intr_type, intr_enabled, pending,
                        cb_this, n_irq, n_cb>>]_vars
    /\ [][(phase = "installed" /\ pc = "rearm" /\ pc' = "enable")
            => intr_type' = Complement(pin_state)]_vars

\* The panic came after a completed invocation, and the pin has since
\* reached the level the trigger is still armed for.
C7_Witness ==
    /\ phase = "panicked" /\ n_irq >= 1
    /\ LevelMatches

\* C8: ESP_ERR_INVALID_STATE from gpio_install_isr_service is taken as
\* success, like ESP_OK: construction goes on to register the handler; any
\* other result fails construction.
C8_AlreadyInstalledIsSuccess ==
    /\ svc_result \in {"ESP_OK", "ESP_ERR_INVALID_STATE"} =>
          /\ new_err \in {"none", "gpio_isr_handler_add"}
          /\ new_err = "none" => (phase # "failed" /\ handler_reg)
    /\ svc_result \notin {"none", "ESP_OK", "ESP_ERR_INVALID_STATE"} =>
          (phase = "failed" /\ new_err = "gpio_install_isr_service")

C8_Witness ==
    /\ phase = "installed" /\ svc_result = "ESP_ERR_INVALID_STATE"
    /\ handler_reg /\ intr_enabled

\* ------------------------------------------------ the classic window
Time(i) == fired[i][1]
Accepted(i) == fired[i][2]
Gap(i) == Time(i) - Time(i - 1)
Firings == 1..Len(fired)
Classic == deb.kind = "ClassicDebounce"

\* Every firing after the first is at least debounce_time after the one before.
SpacedApart == \A i \in Firings : i > 1 => Gap(i) >= deb.debounce_time

\* The first firing is at least debounce_time after the construction.
FirstAfterWindow ==
    fired # <<>> => Time(1) - DebConstructedAt >= deb.debounce_time

\* C9 as stated: firings each at least debounce_time after the previous
\* firing are all accepted.
C9_SpacedFiringsAccepted ==
    (Classic /\ SpacedApart) => \A i \in Firings : Accepted(i)

\* C9 amended: ... and the first of them at least debounce_time after the
\* debouncer's construction.
C9_SpacedFiringsAcceptedAfterWindow ==
    (Classic /\ SpacedApart /\ FirstAfterWindow) => \A i \in Firings : Accepted(i)

C9_Witness ==
    /\ Classic /\ deb.debounce_time >= 1
    /\ Len(fired) >= 3 /\ SpacedApart /\ FirstAfterWindow
    /\ \A i \in Firings : Accepted(i)

\* Firings i..j are a burst: i starts it (no firing less than debounce_time
\* before it) and each later one is less than debounce_time after the one
\* before.
Burst(i, j) ==
    /\ i \in Firings /\ j \in Firings /\ i <= j
    /\ i > 1 => Gap(i) >= deb.debounce_time
    /\ \A k \in (i + 1)..j : Gap(k) < deb.debounce_time

\* The latest accepted firing before firing k (0: none).
LastAcceptedBefore(k) ==
    LET S == {m \in 1..(k - 1) : Accepted(m)}
    IN  IF S = {} THEN 0 ELSE CHOOSE m \in S : \A n \in S : n <= m

\* C10 as stated: of a burst only the first firing is accepted, whatever
\* the burst's length.
C10_BurstOnlyFirstAccepted ==
    Classic => \A i \in Firings, j \in Firings :
        Burst(i, j) => (Accepted(i) /\ \A k \in (i + 1)..j : ~Accepted(k))

\* C10 amended: the first firing of a burst is accepted (the first firing
\* ever only if it is at least debounce_time after the construction), and a
\* later firing of the burst is rejected exactly when it is less than
\* debounce_time after the latest accepted firing.
C10_BurstRejectsWithinWindowOfLastAccepted ==
    Classic => \A i \in Firings, j \in Firings :
        (Burst(i, j) /\ (i = 1 => FirstAfterWindow)) =>
            /\ Accepted(i)
            /\ \A k \in (i + 1)..j :
                  ~Accepted(k) <=>
                      Time(k) - Time(LastAcceptedBefore(k)) < deb.debounce_time

\* A burst longer than the window: accepted, rejected, accepted again.
C10_Witness ==
    /\ Classic /\ Len(fired) = 3 /\ Burst(1, 3) /\ FirstAfterWindow
    /\ Accepted(1) /\ ~Accepted(2) /\ Accepted(3)

\* ------------------------------------------------ the filtered window
Filter == deb.kind = "FilterDebounce"

\* The time the window of firing i is measured from by a debouncer that
\* samples on every firing: the firing before, or the construction.
PrevTime(i) == IF i = 1 THEN DebConstructedAt ELSE Time(i - 1)
InWindow(i) == Time(i) - PrevTime(i) < deb.debounce_time

\* Whether firing i finds the flag set: the firing before arrived inside the
\* window and found the flag clear.
RECURSIVE FlagBefore(_)
FlagBefore(i) == IF i = 1 THEN FALSE ELSE InWindow(i - 1) /\ ~FlagBefore(i - 1)

\* C11: a firing inside the window with ignore_next clear is rejected and
\* sets ignore_next; the next firing is rejected whenever it arrives and
\* clears it; the firing after that obeys the window rule.  ignore_next is
\* set only right after an in-window rejected firing.
C11_FilterSwallowsTheNextFiring ==
    Filter =>
        /\ deb.ignore_next = FlagBefore(Len(fired) + 1)
        /\ \A i \in Firings :
              /\ FlagBefore(i) => ~Accepted(i)
              /\ ~FlagBefore(i) => (Accepted(i) <=> ~InWindow(i))
        /\ deb.ignore_next =>
              (fired # <<>> /\ InWindow(Len(fired)) /\ ~Accepted(Len(fired)))

\* Accepted; rejected inside the window; rejected late, outside the window;
\* accepted again.
C11_Witness ==
    /\ Filter /\ Len(fired) = 4
    /\ Accepted(1)
    /\ InWindow(2) /\ ~Accepted(2)
    /\ ~InWindow(3) /\ ~Accepted(3)
    /\ Accepted(4) /\ ~deb.ignore_next

NumAccepted == Cardinality({i \in Firings : Accepted(i)})

\* Four firings in all: a genuine edge outside the window, a glitch pair,
\* and the second genuine edge, which follows the first by less than the
\* debounce time (1 ms against 20 ms).
TwoEdgesAndAGlitchPair ==
    /\ Filter /\ Len(fired) = 4
    /\ ~InWindow(1)
    /\ 0 < Time(4) - Time(1)
    /\ Time(4) - Time(1) < deb.debounce_time

\* C12 as stated: over these four firings the debouncer accepts, and the
\* handler calls the callback for, exactly two.
C12_TwoCallbacksForTwoEdges == TwoEdgesAndAGlitchPair => NumAccepted = 2

\* C12 amended: exactly one, the first edge; the second edge is inside the
\* window of the glitch before it, is rejected and sets ignore_next.
C12_OneCallbackForTwoEdges ==
    TwoEdgesAndAGlitchPair =>
        /\ NumAccepted = 1
        /\ Accepted(1)
        /\ deb.ignore_next

C12_Witness ==
    /\ TwoEdgesAndAGlitchPair
    /\ Time(2) = Time(1) /\ Time(3) = Time(4)
    /\ Accepted(1) /\ ~Accepted(2) /\ ~Accepted(3) /\ ~Accepted(4)

\* C13: with debounce_time = 0 the classic and the filtered window accept
\* every firing, as NoDebounce does, and the filtered one never sets
\* ignore_next.
C13_ZeroWindowAcceptsAll ==
    deb.debounce_time = 0 =>
        /\ \A i \in Firings : Accepted(i)
        /\ ~deb.ignore_next

C13_Witness ==
    /\ Filter /\ deb.debounce_time = 0
    /\ Len(fired) = 3 /\ Time(1) = DebConstructedAt /\ Time(2) = Time(1)
    /\ \A i \in Firings : Accepted(i)

\* The verdict of the firing a step has just recorded.
NewVerdict == fired'[Len(fired')][2]

\* C17: ClassicDebounce.is_isr_valid returns false and leaves last_sample
\* alone exactly when now - last_sample < debounce_time, else sets
\* last_sample = now and returns true; last_sample is the time of the last
\* accepted firing, or of the construction, and never decreases.
C17_ClassicSamplesOnAcceptance ==
    /\ [](Classic =>
            deb.last_sample =
                IF LastAcceptedBefore(Len(fired) + 1) = 0 THEN DebConstructedAt
                ELSE Time(LastAcceptedBefore(Len(fired) + 1)))
    /\ [][(Classic /\ fired' # fired) =>
            /\ ~NewVerdict <=> (clock - deb.last_sample < deb.debounce_time)
            /\ ~NewVerdict => deb' = deb
            /\ NewVerdict => deb' = [deb EXCEPT !.last_sample = clock]
            /\ deb'.last_sample >= deb.last_sample]_vars

\* A rejected firing later than the accepted one has left last_sample alone.
C17_Witness ==
    /\ Classic /\ Len(fired) = 2
    /\ Accepted(1) /\ ~Accepted(2) /\ Time(2) > Time(1)
    /\ deb.last_sample = Time(1)

\* C18: FilterDebounce.is_isr_valid clears a set ignore_next and returns
\* false; else inside the window sets it and returns false; else returns
\* true with it clear; and sets last_sample = now in all three branches.
C18_FilterBranches ==
    /\ [](Filter /\ fired # <<>> => deb.last_sample = Time(Len(fired)))
    /\ [][(Filter /\ fired' # fired) =>
            /\ deb'.last_sample = clock
            /\ deb'.debounce_time = deb.debounce_time
            /\ deb.ignore_next => (~NewVerdict /\ ~deb'.ignore_next)
            /\ (~deb.ignore_next /\ clock - deb.last_sample < deb.debounce_time)
                  => (~NewVerdict /\ deb'.ignore_next)
            /\ (~deb.ignore_next /\ ~(clock - deb.last_sample < deb.debounce_time))
                  => (NewVerdict /\ ~deb'.ignore_next)]_vars

\* All three branches have been taken, the rejecting ones after the clock
\* had moved on.
C18_Witness ==
    /\ Filter /\ Len(fired) = 3
    /\ Accepted(1)
    /\ ~Accepted(2) /\ Time(2) > Time(1)
    /\ ~Accepted(3) /\ Time(3) > Time(2)
    /\ ~deb.ignore_next /\ deb.last_sample = Time(3)

\* C20: last_sample starts at the clock value of the construction, so with
\* debounce_time > 0 a first firing less than debounce_time after the
\* construction is rejected, and under FilterDebounce the next one too.
C20_FirstFiringInsideConstructionWindow ==
    (deb.kind \in {"ClassicDebounce", "FilterDebounce"}) =>
        /\ fired = <<>> => deb.last_sample = DebConstructedAt
        /\ (deb.debounce_time > 0 /\ fired # <<>>
               /\ Time(1) - DebConstructedAt < deb.debounce_time) =>
              /\ ~Accepted(1)
              /\ (Filter /\ Len(fired) >= 2) => ~Accepted(2)

\* The second firing comes long after the window and is rejected still.
C20_Witness ==
    /\ Filter /\ deb.debounce_time > 0 /\ Len(fired) = 2
    /\ Time(1) - DebConstructedAt < deb.debounce_time
    /\ Time(2) - Time(1) >= deb.debounce_time
    /\ ~Accepted(1) /\ ~Accepted(2)

\* A controller constructed on a low pin, in or after its first invocation.
FirstOnLowPin(n) == phase = "installed" /\ ~initial_level /\ n_irq = n

\* C14 as stated: on a pin read low at construction, the first firing (of
\* the first rising edge) sets the remembered level high, calls the
\* callback with true and re-arms for low level, whatever the debouncer.
C14_FirstRisingEdgeCallsBack ==
    (FirstOnLowPin(1) /\ pc = "idle") =>
        /\ pin_state
        /\ intr_type = "LowLevel"
        /\ n_cb = 1

\* C14: on a pin read low at construction the controller is armed for high
\* level; its first firing sets the remembered level high and re-arms for
\* low level, and calls the callback, with true, exactly when the debouncer
\* accepts it: under NoDebounce, or at least debounce_time after the
\* debouncer was constructed.
C14_FirstRisingEdgeCallsBackIfAccepted ==
    /\ []((FirstOnLowPin(0) /\ pc = "idle") =>
             /\ ~pin_state
             /\ intr_type = "HighLevel"
             /\ n_cb = 0)
    /\ [][(FirstOnLowPin(0) /\ pc = "debounce" /\ pc' = "callback") =>
             (valid' <=> \/ deb.kind = "NoDebounce"
                         \/ clock - deb.last_sample >= deb.debounce_time)]_vars
    /\ []((FirstOnLowPin(0) /\ pc \in {"rearm", "enable"}) =>
             cb_this = IF valid THEN <<TRUE>> ELSE <<>>)
    /\ []((FirstOnLowPin(1) /\ pc = "idle") =>
             /\ pin_state
             /\ intr_type = "LowLevel"
             /\ n_cb <= 1)

\* The first firing came inside the window that started at the debouncer's
\* construction: the level and the trigger moved, the callback did not run.
C14_Witness ==
    /\ FirstOnLowPin(1) /\ pc = "idle"
    /\ deb.kind = "ClassicDebounce"
    /\ pin_state /\ intr_type = "LowLevel" /\ n_cb = 0

InHandler == pc \in {"flip", "debounce", "callback", "rearm", "enable"}

\* C15: the pin's interrupt is disabled from the handler's first step to
\* its last, which alone re-enables it; no firing is latched or dispatched
\* while an invocation is in progress; the callback runs with the interrupt
\* disabled and the trigger not yet re-armed.
C15_HandlerSerialized ==
    /\ []((phase = "installed" /\ InHandler) => (~intr_enabled /\ ~pending))
    /\ []((phase = "installed" /\ pc \in {"flip", "debounce", "callback"}) =>
             intr_type = Complement(entry_state))
    /\ [][(phase = "installed" /\ ~intr_enabled /\ intr_enabled') =>
             (pc = "enable" /\ pc' = "idle")]_vars
    /\ [][(phase = "installed" /\ pc' = "flip" /\ pc # "flip") => pc = "idle"]_vars

\* The callback is about to run while the pin is back at the armed level.
C15_Witness ==
    /\ phase = "installed" /\ pc = "callback" /\ valid
    /\ LevelMatches
    /\ ~intr_enabled /\ ~pending
    /\ n_irq >= 1

\* C16: an invocation ends the same way whether the debouncer accepted the
\* firing or not: remembered level flipped from what it was at entry,
\* whatever the pin shows, trigger re-armed for the opposite level,
\* interrupt re-enabled; only the callback is left out on rejection.
C16_RejectedFiringStillFlipsAndRearms ==
    /\ [][(phase = "installed" /\ pc = "enable" /\ pc' = "idle") =>
             /\ pin_state' = ~entry_state
             /\ intr_type' = Complement(pin_state')
             /\ intr_enabled'
             /\ cb_this = IF valid THEN <<pin_state>> ELSE <<>>
             /\ n_irq' = Sat(n_irq)]_vars
    /\ []((phase = "installed" /\ pc \in {"callback", "rearm", "enable"}) =>
             pin_state = ~entry_state)

\* A rejected firing is about to end with the remembered level unlike the
\* level of the pin.
C16_Witness ==
    /\ phase = "installed" /\ pc = "enable"
    /\ ~valid /\ cb_this = <<>>
    /\ pin_state = ~entry_state /\ pin_state # level
    /\ intr_type = Complement(pin_state)

\* C19: under FilterDebounce and NoDebounce an accepted firing comes after
\* an even number of rejected ones, so the k-th call of the callback gets
\* the level read at construction XOR (k is odd).
C19_CallbackLevelsAlternate ==
    (/\ phase = "installed"
     /\ deb.kind \in {"FilterDebounce", "NoDebounce"}
     /\ pc = "callback" /\ valid) =>
        /\ n_irq < MaxCount => (n_irq - n_cb) % 2 = 0
        /\ n_cb < MaxCount => pin_state = (initial_level # Odd(n_cb + 1))

\* The second call of the callback comes after two rejected firings.
C19_Witness ==
    /\ phase = "installed" /\ deb.kind = "FilterDebounce"
    /\ pc = "callback" /\ valid
    /\ n_cb = 1 /\ n_irq = n_cb + 2
    /\ pin_state = initial_level

====
